---- MODULE Spec2Model ----
(***************************************************************************)
(* dpkt/ssl_ciphersuites.py: the table of TLS cipher suites, the           *)
(* CipherSuite accessors derived from the stored tokens, and the two       *)
(* lookups (BY_CODE by wire code, BY_NAME by canonical name with its       *)
(* lazily built index BY_NAME_DICT).                                       *)
(*                                                                         *)
(* Python values: a str is a TLA+ string; an optional value (None or a     *)
(* value) is the empty tuple or a one-element tuple; an object reference   *)
(* to an element of CIPHERSUITES is its position in the list.              *)
(***************************************************************************)
EXTENDS Integers, Sequences, FiniteSets, TLC

VARIABLES
    BY_NAME_DICT,   \* the module global: None until the first BY_NAME call
    self,           \* the CipherSuite object whose properties are being read
    ret,            \* the last completed call: what was called, with what, and its outcome
    builds,         \* how many times the assignment of BY_NAME has built an index
    threads         \* per thread: where it stands in its call, the argument, the outcome

vars == <<BY_NAME_DICT, self, ret, builds, threads>>

None == <<>>
Some(v) == <<v>>

\* most trailing spaces a constructor argument is padded with
MaxPad == 2

\* threads that call the lookups concurrently
NumThreads == 2

-----------------------------------------------------------------------------
(* str methods used by the class *)

Whitespace == {" ", "\t", "\n", "\r"}

RECURSIVE rstrip(_)
rstrip(s) ==
    IF Len(s) > 0 /\ SubSeq(s, Len(s), Len(s)) \in Whitespace
    THEN rstrip(SubSeq(s, 1, Len(s) - 1))
    ELSE s

startswith(s, prefix) ==
    Len(s) >= Len(prefix) /\ SubSeq(s, 1, Len(prefix)) = prefix

-----------------------------------------------------------------------------
(* dict operations *)

\* dict((keys[i], i) for i in ...): a later pair replaces an earlier one
\* with the same key
dict(keys) ==
    [k \in {keys[i] : i \in DOMAIN keys} |->
        CHOOSE i \in DOMAIN keys :
            keys[i] = k /\ \A j \in DOMAIN keys : keys[j] = k => j <= i]

\* a lookup that falls back to an entry of the dict when the key is missing
getitem_default(d, key) ==
    IF key \in DOMAIN d
    THEN [kind |-> "return", val |-> d[key]]
    ELSE [kind |-> "return", val |-> d[CHOOSE k \in DOMAIN d : TRUE]]

\* d[key]: the value, or KeyError(key)
getitem(d, key) ==
    IF key \in DOMAIN d
    THEN [kind |-> "return", val |-> d[key]]
    ELSE [kind |-> "KeyError", val |-> key]

\* d.get(key, default)
get(d, key, default) ==
    IF key \in DOMAIN d THEN d[key] ELSE default

-----------------------------------------------------------------------------
(* class CipherSuite *)

\* a constructor that keeps the two low bytes of the code only
CipherSuite_twobyte(code, kx_, auth_, cipher, mode, mac, name_, encoding_) ==
    [code |-> code % 65536,
     _kx |-> rstrip(kx_),
     _auth |-> rstrip(auth_),
     cipher |-> rstrip(cipher),
     mode |-> rstrip(mode),
     mac |-> rstrip(mac),
     _name |-> name_,
     _encoding |-> encoding_]

\* a constructor whose key-exchange slot is filled from the auth argument
CipherSuite_kx_from_auth(code, kx_, auth_, cipher, mode, mac, name_, encoding_) ==
    [code |-> code,
     _kx |-> rstrip(auth_),
     _auth |-> rstrip(auth_),
     cipher |-> rstrip(cipher),
     mode |-> rstrip(mode),
     mac |-> rstrip(mac),
     _name |-> name_,
     _encoding |-> encoding_]

\* a constructor that keeps the padding of the mode argument
CipherSuite_mode_unstripped(code, kx_, auth_, cipher, mode, mac, name_, encoding_) ==
    [code |-> code,
     _kx |-> rstrip(kx_),
     _auth |-> rstrip(auth_),
     cipher |-> rstrip(cipher),
     mode |-> mode,
     mac |-> rstrip(mac),
     _name |-> name_,
     _encoding |-> encoding_]

CipherSuite(code, kx_, auth_, cipher, mode, mac, name_, encoding_) ==
    [code |-> code,
     _kx |-> rstrip(kx_),
     _auth |-> rstrip(auth_),
     cipher |-> rstrip(cipher),
     mode |-> rstrip(mode),
     mac |-> rstrip(mac),
     _name |-> name_,
     _encoding |-> encoding_]

\* a kx that returns the stored token with no fallback
kx_stored(s) ==
    s._kx

kx(s) ==
    IF s._kx = "" THEN s._auth ELSE s._kx

\* an auth that returns the stored token with no fallback
auth_stored(s) ==
    s._auth

auth(s) ==
    IF s._auth = "" THEN s._kx ELSE s._auth

kx_auth(s) ==
    IF s._auth = "" THEN s._kx
    ELSE IF s._kx = "" THEN s._auth
    ELSE s._kx \o "_" \o s._auth

encoding(s) ==
    IF s._encoding = None
    THEN IF s.mode = "" THEN s.cipher ELSE s.cipher \o "_" \o s.mode
    ELSE s._encoding[1]

\* a name that is always derived, the explicit one ignored
name_derived(s) ==
    IF s.mac = ""
    THEN "TLS_" \o kx_auth(s) \o "_WITH_" \o encoding(s)
    ELSE "TLS_" \o kx_auth(s) \o "_WITH_" \o encoding(s) \o "_" \o s.mac

\* a name whose MAC suffix is appended even when the suite has no MAC
name_always_mac(s) ==
    IF s._name = None
    THEN "TLS_" \o kx_auth(s) \o "_WITH_" \o encoding(s) \o "_" \o s.mac
    ELSE s._name[1]

name(s) ==
    IF s._name = None
    THEN IF s.mac = ""
         THEN "TLS_" \o kx_auth(s) \o "_WITH_" \o encoding(s)
         ELSE "TLS_" \o kx_auth(s) \o "_WITH_" \o encoding(s) \o "_" \o s.mac
    ELSE s._name[1]

\* the table of MAC sizes without its SHA384 row
MAC_SIZES_short ==
    ("MD5" :> 16) @@ ("SHA" :> 20) @@ ("SHA256" :> 32)

MAC_SIZES ==
    ("MD5" :> 16) @@ ("SHA" :> 20) @@ ("SHA256" :> 32) @@ ("SHA384" :> 48)

BLOCK_SIZES ==
    ("3DES_EDE" :> Some(8)) @@ ("AES_128" :> Some(16)) @@ ("AES_256" :> Some(16)) @@
    ("ARIA" :> Some(16)) @@ ("CAMELLIA_128" :> Some(16)) @@
    ("CAMELLIA_256" :> Some(16)) @@ ("CHACHA20" :> Some(64)) @@ ("DES" :> Some(8)) @@
    ("DES40" :> Some(8)) @@ ("IDEA" :> Some(8)) @@ ("IDEA_128" :> Some(16)) @@
    ("RC2_40" :> Some(8)) @@ ("RC2_128" :> Some(8)) @@
    ("RC2_128_EXPORT40" :> Some(8)) @@ ("RC4_40" :> None) @@ ("RC4_128" :> None) @@
    ("RC4_128_EXPORT40" :> None) @@ ("SEED" :> Some(16))

mac_size(s) ==
    get(MAC_SIZES, s.mac, 0)

\* BLOCK_SIZES.get(self.cipher) or 1: None collapses into the default
block_size_or1(s) ==
    IF get(BLOCK_SIZES, s.cipher, None) = None
    THEN Some(1)
    ELSE get(BLOCK_SIZES, s.cipher, None)

block_size(s) ==
    get(BLOCK_SIZES, s.cipher, Some(1))

\* a pfs that matches the key exchange by prefix
pfs_prefix(s) ==
    startswith(kx(s), "DH") \/ startswith(kx(s), "ECDH")

pfs(s) ==
    kx(s) \in {"DHE", "ECDHE"}

\* an aead that counts the ChaCha20-Poly1305 construction in
aead_poly(s) ==
    s.mode \in {"CCM", "CCM_8", "GCM", "POLY1305"}

aead(s) ==
    s.mode \in {"CCM", "CCM_8", "GCM"}

\* an anonymous that compares the whole token
anonymous_exact(s) ==
    auth(s) = "anon"

anonymous(s) ==
    startswith(auth(s), "anon")

-----------------------------------------------------------------------------
(* the master list; each row is the constructor call of the source *)

CIPHERSUITES == <<
    CipherSuite(\H00ff, "NULL", "        ", "NULL    ", "    ", "NULL", Some("TLS_EMPTY_RENEGOTIATION_INFO"), None),
    CipherSuite(\H5600, "", "            ", "", "", "", Some("TLS_FALLBACK"), None),
    CipherSuite(\Hffff, "", "            ", "", "", "", Some("UNKNOWN_CIPHER"), None),
    CipherSuite(\H0000, "NULL", "        ", "NULL    ", "    ", "NULL", None, None),
    CipherSuite(\H0001, "RSA", "         ", "NULL    ", "    ", "MD5", None, None),
    CipherSuite(\H0002, "RSA", "         ", "NULL    ", "    ", "SHA", None, None),
    CipherSuite(\H0003, "RSA_EXPORT", "  ", "RC4_40  ", "    ", "MD5", None, None),
    CipherSuite(\H0004, "RSA", "         ", "RC4_128 ", "    ", "MD5", None, None),
    CipherSuite(\H0005, "RSA", "         ", "RC4_128 ", "    ", "SHA", None, None),
    CipherSuite(\H0006, "RSA_EXPORT", "  ", "RC2_40  ", "CBC ", "MD5", None, Some("RC2_CBC_40")),
    CipherSuite(\H0007, "RSA", "         ", "IDEA    ", "CBC ", "SHA", None, None),
    CipherSuite(\H0008, "RSA_EXPORT", "  ", "DES40   ", "CBC ", "SHA", None, None),
    CipherSuite(\H0009, "RSA", "         ", "DES     ", "CBC ", "SHA", None, None),
    CipherSuite(\H000a, "RSA", "         ", "3DES_EDE", "CBC ", "SHA", None, None),
    CipherSuite(\H000b, "DH", "DSS_EXPORT", "DES40   ", "CBC ", "SHA", None, None),
    CipherSuite(\H000c, "DH", "DSS       ", "DES     ", "CBC ", "SHA", None, None),
    CipherSuite(\H000d, "DH", "DSS       ", "3DES_EDE", "CBC ", "SHA", None, None),
    CipherSuite(\H000e, "DH", "RSA_EXPORT", "DES40   ", "CBC ", "SHA", None, None),
    CipherSuite(\H000f, "DH", "RSA       ", "DES     ", "CBC ", "SHA", None, None),
    CipherSuite(\H0010, "DH", "RSA       ", "3DES_EDE", "CBC ", "SHA", None, None),
    CipherSuite(\H0011, "DHE", "DSS_EXPORT", "DES40   ", "CBC ", "SHA", None, None),
    CipherSuite(\H0012, "DHE", "DSS      ", "DES     ", "CBC ", "SHA", None, None),
    CipherSuite(\H0013, "DHE", "DSS      ", "3DES_EDE", "CBC ", "SHA", None, None),
    CipherSuite(\H0014, "DHE", "RSA_EXPORT", "DES40   ", "CBC ", "SHA", None, None),
    CipherSuite(\H0015, "DHE", "RSA      ", "DES     ", "CBC ", "SHA", None, None),
    CipherSuite(\H0016, "DHE", "RSA      ", "3DES_EDE", "CBC ", "SHA", None, None),
    CipherSuite(\H0017, "DH", "anon_EXPORT", "RC4_40  ", "    ", "MD5", None, None),
    CipherSuite(\H0018, "DH", "anon      ", "RC4_128 ", "    ", "MD5", None, None),
    CipherSuite(\H0019, "DH", "anon_EXPORT", "DES40   ", "CBC ", "SHA", None, None),
    CipherSuite(\H001a, "DH", "anon      ", "DES     ", "CBC ", "SHA", None, None),
    CipherSuite(\H001b, "DH", "anon      ", "3DES_EDE", "CBC ", "SHA", None, None),
    CipherSuite(\H001e, "KRB5", "        ", "DES     ", "CBC ", "SHA", None, None),
    CipherSuite(\H001f, "KRB5", "        ", "3DES_EDE", "CBC ", "SHA", None, None),
    CipherSuite(\H0020, "KRB5", "        ", "RC4_128 ", "    ", "SHA", None, None),
    CipherSuite(\H0021, "KRB5", "        ", "IDEA    ", "CBC ", "SHA", None, None),
    CipherSuite(\H0022, "KRB5", "        ", "DES     ", "CBC ", "MD5", None, None),
    CipherSuite(\H0023, "KRB5", "        ", "3DES_EDE", "CBC ", "MD5", None, None),
    CipherSuite(\H0024, "KRB5", "        ", "RC4_128 ", "    ", "MD5", None, None),
    CipherSuite(\H0025, "KRB5", "        ", "IDEA    ", "CBC ", "MD5", None, None),
    CipherSuite(\H0026, "KRB5_EXPORT", " ", "DES40   ", "CBC ", "SHA", None, Some("DES_CBC_40")),
    CipherSuite(\H0027, "KRB5_EXPORT", " ", "RC2_40  ", "CBC ", "SHA", None, Some("RC2_CBC_40")),
    CipherSuite(\H0028, "KRB5_EXPORT", " ", "RC4_40  ", "    ", "SHA", None, None),
    CipherSuite(\H0029, "KRB5_EXPORT", " ", "DES40   ", "CBC ", "MD5", None, Some("DES_CBC_40")),
    CipherSuite(\H002a, "KRB5_EXPORT", " ", "RC2_40  ", "CBC ", "MD5", None, Some("RC2_CBC_40")),
    CipherSuite(\H002b, "KRB5_EXPORT", " ", "RC4_40  ", "    ", "MD5", None, None),
    CipherSuite(\H002c, "    ", "PSK     ", "NULL    ", "    ", "SHA", None, None),
    CipherSuite(\H002d, "DHE ", "PSK     ", "NULL    ", "    ", "SHA", None, None),
    CipherSuite(\H002e, "RSA ", "PSK     ", "NULL    ", "    ", "SHA", None, None),
    CipherSuite(\H002f, "RSA ", "        ", "AES_128 ", "CBC ", "SHA", None, None),
    CipherSuite(\H0030, "DH  ", "DSS     ", "AES_128 ", "CBC ", "SHA", None, None),
    CipherSuite(\H0031, "DH  ", "RSA     ", "AES_128 ", "CBC ", "SHA", None, None),
    CipherSuite(\H0032, "DHE ", "DSS     ", "AES_128 ", "CBC ", "SHA", None, None),
    CipherSuite(\H0033, "DHE ", "RSA     ", "AES_128 ", "CBC ", "SHA", None, None),
    CipherSuite(\H0034, "DH  ", "anon    ", "AES_128 ", "CBC ", "SHA", None, None),
    CipherSuite(\H0035, "RSA ", "        ", "AES_256 ", "CBC ", "SHA", None, None),
    CipherSuite(\H0036, "DH  ", "DSS     ", "AES_256 ", "CBC ", "SHA", None, None),
    CipherSuite(\H0037, "DH  ", "RSA     ", "AES_256 ", "CBC ", "SHA", None, None),
    CipherSuite(\H0038, "DHE ", "DSS     ", "AES_256 ", "CBC ", "SHA", None, None),
    CipherSuite(\H0039, "DHE ", "RSA     ", "AES_256 ", "CBC ", "SHA", None, None),
    CipherSuite(\H003a, "DH  ", "anon    ", "AES_256 ", "CBC ", "SHA", None, None),
    CipherSuite(\H003b, "RSA ", "        ", "NULL    ", "    ", "SHA256", None, None),
    CipherSuite(\H003c, "RSA ", "        ", "AES_128 ", "CBC ", "SHA256", None, None),
    CipherSuite(\H003d, "RSA ", "        ", "AES_256 ", "CBC ", "SHA256", None, None),
    CipherSuite(\H003e, "DH  ", "DSS     ", "AES_128 ", "CBC ", "SHA256", None, None),
    CipherSuite(\H003f, "DH  ", "RSA     ", "AES_128 ", "CBC ", "SHA256", None, None),
    CipherSuite(\H0040, "DHE ", "DSS     ", "AES_128 ", "CBC ", "SHA256", None, None),
    CipherSuite(\H0041, "RSA ", "        ", "CAMELLIA_128", "CBC", "SHA", None, None),
    CipherSuite(\H0042, "DH  ", "DSS     ", "CAMELLIA_128", "CBC", "SHA", None, None),
    CipherSuite(\H0043, "DH  ", "RSA     ", "CAMELLIA_128", "CBC", "SHA", None, None),
    CipherSuite(\H0044, "DHE ", "DSS     ", "CAMELLIA_128", "CBC", "SHA", None, None),
    CipherSuite(\H0045, "DHE ", "RSA     ", "CAMELLIA_128", "CBC", "SHA", None, None),
    CipherSuite(\H0046, "DH  ", "anon    ", "CAMELLIA_128", "CBC", "SHA", None, None),
    CipherSuite(\H0067, "DHE ", "RSA     ", "AES_128 ", "CBC ", "SHA256", None, None),
    CipherSuite(\H0068, "DH  ", "DSS     ", "AES_256 ", "CBC ", "SHA256", None, None),
    CipherSuite(\H0069, "DH  ", "RSA     ", "AES_256 ", "CBC ", "SHA256", None, None),
    CipherSuite(\H006a, "DHE ", "DSS     ", "AES_256 ", "CBC ", "SHA256", None, None),
    CipherSuite(\H006b, "DHE ", "RSA     ", "AES_256 ", "CBC ", "SHA256", None, None),
    CipherSuite(\H006c, "DH  ", "anon    ", "AES_128 ", "CBC ", "SHA256", None, None),
    CipherSuite(\H006d, "DH  ", "anon    ", "AES_256 ", "CBC ", "SHA256", None, None),
    CipherSuite(\H0084, "RSA ", "        ", "CAMELLIA_256", "CBC", "SHA", None, None),
    CipherSuite(\H0085, "DH  ", "DSS     ", "CAMELLIA_256", "CBC", "SHA", None, None),
    CipherSuite(\H0086, "DH  ", "RSA     ", "CAMELLIA_256", "CBC", "SHA", None, None),
    CipherSuite(\H0087, "DHE ", "DSS     ", "CAMELLIA_256", "CBC", "SHA", None, None),
    CipherSuite(\H0088, "DHE ", "RSA     ", "CAMELLIA_256", "CBC", "SHA", None, None),
    CipherSuite(\H0089, "DH  ", "anon    ", "CAMELLIA_256", "CBC", "SHA", None, None),
    CipherSuite(\H008a, "    ", "PSK     ", "RC4_128 ", "    ", "SHA", None, None),
    CipherSuite(\H008b, "    ", "PSK     ", "3DES_EDE", "CBC ", "SHA", None, None),
    CipherSuite(\H008c, "    ", "PSK     ", "AES_128 ", "CBC ", "SHA", None, None),
    CipherSuite(\H008d, "    ", "PSK     ", "AES_256 ", "CBC ", "SHA", None, None),
    CipherSuite(\H008e, "DHE ", "PSK     ", "RC4_128 ", "    ", "SHA", None, None),
    CipherSuite(\H008f, "DHE ", "PSK     ", "3DES_EDE", "CBC ", "SHA", None, None),
    CipherSuite(\H0090, "DHE ", "PSK     ", "AES_128 ", "CBC ", "SHA", None, None),
    CipherSuite(\H0091, "DHE ", "PSK     ", "AES_256 ", "CBC ", "SHA", None, None),
    CipherSuite(\H0092, "RSA ", "PSK     ", "RC4_128 ", "    ", "SHA", None, None),
    CipherSuite(\H0093, "RSA ", "PSK     ", "3DES_EDE", "CBC ", "SHA", None, None),
    CipherSuite(\H0094, "RSA ", "PSK     ", "AES_128 ", "CBC ", "SHA", None, None),
    CipherSuite(\H0095, "RSA ", "PSK     ", "AES_256 ", "CBC ", "SHA", None, None),
    CipherSuite(\H0096, "RSA ", "        ", "SEED    ", "CBC ", "SHA", None, None),
    CipherSuite(\H0097, "DH  ", "DSS     ", "SEED    ", "CBC ", "SHA", None, None),
    CipherSuite(\H0098, "DH  ", "RSA     ", "SEED    ", "CBC ", "SHA", None, None),
    CipherSuite(\H0099, "DHE ", "DSS     ", "SEED    ", "CBC ", "SHA", None, None),
    CipherSuite(\H009a, "DHE ", "RSA     ", "SEED    ", "CBC ", "SHA", None, None),
    CipherSuite(\H009b, "DH  ", "anon    ", "SEED    ", "CBC ", "SHA", None, None),
    CipherSuite(\H009c, "RSA ", "        ", "AES_128 ", "GCM ", "SHA256", None, None),
    CipherSuite(\H009d, "RSA ", "        ", "AES_256 ", "GCM ", "SHA384", None, None),
    CipherSuite(\H009e, "DHE ", "RSA     ", "AES_128 ", "GCM ", "SHA256", None, None),
    CipherSuite(\H009f, "DHE ", "RSA     ", "AES_256 ", "GCM ", "SHA384", None, None),
    CipherSuite(\H00a0, "DH  ", "RSA     ", "AES_128 ", "GCM ", "SHA256", None, None),
    CipherSuite(\H00a1, "DH  ", "RSA     ", "AES_256 ", "GCM ", "SHA384", None, None),
    CipherSuite(\H00a2, "DHE ", "DSS     ", "AES_128 ", "GCM ", "SHA256", None, None),
    CipherSuite(\H00a3, "DHE ", "DSS     ", "AES_256 ", "GCM ", "SHA384", None, None),
    CipherSuite(\H00a4, "DH  ", "DSS     ", "AES_128 ", "GCM ", "SHA256", None, None),
    CipherSuite(\H00a5, "DH  ", "DSS     ", "AES_256 ", "GCM ", "SHA384", None, None),
    CipherSuite(\H00a6, "DH  ", "anon    ", "AES_128 ", "GCM ", "SHA256", None, None),
    CipherSuite(\H00a7, "DH  ", "anon    ", "AES_256 ", "GCM ", "SHA384", None, None),
    CipherSuite(\H00a8, "    ", "PSK     ", "AES_128 ", "GCM ", "SHA256", None, None),
    CipherSuite(\H00a9, "    ", "PSK     ", "AES_256 ", "GCM ", "SHA384", None, None),
    CipherSuite(\H00aa, "DHE ", "PSK     ", "AES_128 ", "GCM ", "SHA256", None, None),
    CipherSuite(\H00ab, "DHE ", "PSK     ", "AES_256 ", "GCM ", "SHA384", None, None),
    CipherSuite(\H00ac, "RSA ", "PSK     ", "AES_128 ", "GCM ", "SHA256", None, None),
    CipherSuite(\H00ad, "RSA ", "PSK     ", "AES_256 ", "GCM ", "SHA384", None, None),
    CipherSuite(\H00ae, "    ", "PSK     ", "AES_128 ", "CBC ", "SHA256", None, None),
    CipherSuite(\H00af, "    ", "PSK     ", "AES_256 ", "CBC ", "SHA384", None, None),
    CipherSuite(\H00b0, "    ", "PSK     ", "NULL    ", "    ", "SHA256", None, None),
    CipherSuite(\H00b1, "    ", "PSK     ", "NULL    ", "    ", "SHA384", None, None),
    CipherSuite(\H00b2, "DHE ", "PSK     ", "AES_128 ", "CBC ", "SHA256", None, None),
    CipherSuite(\H00b3, "DHE ", "PSK     ", "AES_256 ", "CBC ", "SHA384", None, None),
    CipherSuite(\H00b4, "DHE ", "PSK     ", "NULL    ", "    ", "SHA256", None, None),
    CipherSuite(\H00b5, "DHE ", "PSK     ", "NULL    ", "    ", "SHA384", None, None),
    CipherSuite(\H00b6, "RSA ", "PSK     ", "AES_128 ", "CBC ", "SHA256", None, None),
    CipherSuite(\H00b7, "RSA ", "PSK     ", "AES_256 ", "CBC ", "SHA384", None, None),
    CipherSuite(\H00b8, "RSA ", "PSK     ", "NULL    ", "    ", "SHA256", None, None),
    CipherSuite(\H00b9, "RSA ", "PSK     ", "NULL    ", "    ", "SHA384", None, None),
    CipherSuite(\H00ba, "RSA ", "        ", "CAMELLIA_128", "CBC", "SHA256", None, None),
    CipherSuite(\H00bb, "DH  ", "DSS     ", "CAMELLIA_128", "CBC", "SHA256", None, None),
    CipherSuite(\H00bc, "DH  ", "RSA     ", "CAMELLIA_128", "CBC", "SHA256", None, None),
    CipherSuite(\H00bd, "DHE ", "DSS     ", "CAMELLIA_128", "CBC", "SHA256", None, None),
    CipherSuite(\H00be, "DHE ", "RSA     ", "CAMELLIA_128", "CBC", "SHA256", None, None),
    CipherSuite(\H00bf, "DH  ", "anon    ", "CAMELLIA_128", "CBC", "SHA256", None, None),
    CipherSuite(\H00c0, "RSA ", "        ", "CAMELLIA_256", "CBC", "SHA256", None, None),
    CipherSuite(\H00c1, "DH  ", "DSS     ", "CAMELLIA_256", "CBC", "SHA256", None, None),
    CipherSuite(\H00c2, "DH  ", "RSA     ", "CAMELLIA_256", "CBC", "SHA256", None, None),
    CipherSuite(\H00c3, "DHE ", "DSS     ", "CAMELLIA_256", "CBC", "SHA256", None, None),
    CipherSuite(\H00c4, "DHE ", "RSA     ", "CAMELLIA_256", "CBC", "SHA256", None, None),
    CipherSuite(\H00c5, "DH  ", "anon    ", "CAMELLIA_256", "CBC", "SHA256", None, None),
    CipherSuite(\Hc001, "ECDH ", "ECDSA  ", "NULL    ", "    ", "SHA", None, None),
    CipherSuite(\Hc002, "ECDH ", "ECDSA  ", "RC4_128 ", "    ", "SHA", None, None),
    CipherSuite(\Hc003, "ECDH ", "ECDSA  ", "3DES_EDE", "CBC ", "SHA", None, None),
    CipherSuite(\Hc004, "ECDH ", "ECDSA  ", "AES_128 ", "CBC ", "SHA", None, None),
    CipherSuite(\Hc005, "ECDH ", "ECDSA  ", "AES_256 ", "CBC ", "SHA", None, None),
    CipherSuite(\Hc006, "ECDHE", "ECDSA  ", "NULL    ", "    ", "SHA", None, None),
    CipherSuite(\Hc007, "ECDHE", "ECDSA  ", "RC4_128 ", "    ", "SHA", None, None),
    CipherSuite(\Hc008, "ECDHE", "ECDSA  ", "3DES_EDE", "CBC ", "SHA", None, None),
    CipherSuite(\Hc009, "ECDHE", "ECDSA  ", "AES_128 ", "CBC ", "SHA", None, None),
    CipherSuite(\Hc00a, "ECDHE", "ECDSA  ", "AES_256 ", "CBC ", "SHA", None, None),
    CipherSuite(\Hc00b, "ECDH ", "RSA    ", "NULL    ", "    ", "SHA", None, None),
    CipherSuite(\Hc00c, "ECDH ", "RSA    ", "RC4_128 ", "    ", "SHA", None, None),
    CipherSuite(\Hc00d, "ECDH ", "RSA    ", "3DES_EDE", "CBC ", "SHA", None, None),
    CipherSuite(\Hc00e, "ECDH ", "RSA    ", "AES_128 ", "CBC ", "SHA", None, None),
    CipherSuite(\Hc00f, "ECDH ", "RSA    ", "AES_256 ", "CBC ", "SHA", None, None),
    CipherSuite(\Hc010, "ECDHE", "RSA    ", "NULL    ", "    ", "SHA", None, None),
    CipherSuite(\Hc011, "ECDHE", "RSA    ", "RC4_128 ", "    ", "SHA", None, None),
    CipherSuite(\Hc012, "ECDHE", "RSA    ", "3DES_EDE", "CBC ", "SHA", None, None),
    CipherSuite(\Hc013, "ECDHE", "RSA    ", "AES_128 ", "CBC ", "SHA", None, None),
    CipherSuite(\Hc014, "ECDHE", "RSA    ", "AES_256 ", "CBC ", "SHA", None, None),
    CipherSuite(\Hc015, "ECDH ", "anon   ", "NULL    ", "    ", "SHA", None, None),
    CipherSuite(\Hc016, "ECDH ", "anon   ", "RC4_128 ", "    ", "SHA", None, None),
    CipherSuite(\Hc017, "ECDH ", "anon   ", "3DES_EDE", "CBC ", "SHA", None, None),
    CipherSuite(\Hc018, "ECDH ", "anon   ", "AES_128 ", "CBC ", "SHA", None, None),
    CipherSuite(\Hc019, "ECDH ", "anon   ", "AES_256 ", "CBC ", "SHA", None, None),
    CipherSuite(\Hc01a, "SRP_SHA", "     ", "3DES_EDE", "CBC ", "SHA", None, None),
    CipherSuite(\Hc01b, "SRP_SHA", "RSA  ", "3DES_EDE", "CBC ", "SHA", None, None),
    CipherSuite(\Hc01c, "SRP_SHA", "DSS  ", "3DES_EDE", "CBC ", "SHA", None, None),
    CipherSuite(\Hc01d, "SRP_SHA", "     ", "AES_128 ", "CBC ", "SHA", None, None),
    CipherSuite(\Hc01e, "SRP_SHA", "RSA  ", "AES_128 ", "CBC ", "SHA", None, None),
    CipherSuite(\Hc01f, "SRP_SHA", "DSS  ", "AES_128 ", "CBC ", "SHA", None, None),
    CipherSuite(\Hc020, "SRP_SHA", "     ", "AES_256 ", "CBC ", "SHA", None, None),
    CipherSuite(\Hc021, "SRP_SHA", "RSA  ", "AES_256 ", "CBC ", "SHA", None, None),
    CipherSuite(\Hc022, "SRP_SHA", "DSS  ", "AES_256 ", "CBC ", "SHA", None, None),
    CipherSuite(\Hc023, "ECDHE", "ECDSA  ", "AES_128 ", "CBC ", "SHA256", None, None),
    CipherSuite(\Hc024, "ECDHE", "ECDSA  ", "AES_256 ", "CBC ", "SHA384", None, None),
    CipherSuite(\Hc025, "ECDH ", "ECDSA  ", "AES_128 ", "CBC ", "SHA256", None, None),
    CipherSuite(\Hc026, "ECDH ", "ECDSA  ", "AES_256 ", "CBC ", "SHA384", None, None),
    CipherSuite(\Hc027, "ECDHE", "RSA    ", "AES_128 ", "CBC ", "SHA256", None, None),
    CipherSuite(\Hc028, "ECDHE", "RSA    ", "AES_256 ", "CBC ", "SHA384", None, None),
    CipherSuite(\Hc029, "ECDH ", "RSA    ", "AES_128 ", "CBC ", "SHA256", None, None),
    CipherSuite(\Hc02a, "ECDH ", "RSA    ", "AES_256 ", "CBC ", "SHA384", None, None),
    CipherSuite(\Hc02b, "ECDHE", "ECDSA  ", "AES_128 ", "GCM ", "SHA256", None, None),
    CipherSuite(\Hc02c, "ECDHE", "ECDSA  ", "AES_256 ", "GCM ", "SHA384", None, None),
    CipherSuite(\Hc02d, "ECDH ", "ECDSA  ", "AES_128 ", "GCM ", "SHA256", None, None),
    CipherSuite(\Hc02e, "ECDH ", "ECDSA  ", "AES_256 ", "GCM ", "SHA384", None, None),
    CipherSuite(\Hc02f, "ECDHE", "RSA    ", "AES_128 ", "GCM ", "SHA256", None, None),
    CipherSuite(\Hc030, "ECDHE", "RSA    ", "AES_256 ", "GCM ", "SHA384", None, None),
    CipherSuite(\Hc031, "ECDH ", "RSA    ", "AES_128 ", "GCM ", "SHA256", None, None),
    CipherSuite(\Hc032, "ECDH ", "RSA    ", "AES_256 ", "GCM ", "SHA384", None, None),
    CipherSuite(\Hc033, "ECDHE", "PSK    ", "RC4_128 ", "    ", "SHA", None, None),
    CipherSuite(\Hc034, "ECDHE", "PSK    ", "3DES_EDE", "CBC ", "SHA", None, None),
    CipherSuite(\Hc035, "ECDHE", "PSK    ", "AES_128 ", "CBC ", "SHA", None, None),
    CipherSuite(\Hc036, "ECDHE", "PSK    ", "AES_256 ", "CBC ", "SHA", None, None),
    CipherSuite(\Hc037, "ECDHE", "PSK    ", "AES_128 ", "CBC ", "SHA256", None, None),
    CipherSuite(\Hc038, "ECDHE", "PSK    ", "AES_256 ", "CBC ", "SHA384", None, None),
    CipherSuite(\Hc039, "ECDHE", "PSK    ", "NULL    ", "    ", "SHA", None, None),
    CipherSuite(\Hc03a, "ECDHE", "PSK    ", "NULL    ", "    ", "SHA256", None, None),
    CipherSuite(\Hc03b, "ECDHE", "PSK    ", "NULL    ", "    ", "SHA384", None, None),
    CipherSuite(\Hc03c, "RSA ", "        ", "ARIA_128", "CBC ", "SHA256", None, None),
    CipherSuite(\Hc03d, "RSA ", "        ", "ARIA_256", "CBC ", "SHA384", None, None),
    CipherSuite(\Hc03e, "DH  ", "DSS     ", "ARIA_128", "CBC ", "SHA256", None, None),
    CipherSuite(\Hc03f, "DH  ", "DSS     ", "ARIA_256", "CBC ", "SHA384", None, None),
    CipherSuite(\Hc040, "DH  ", "RSA     ", "ARIA_128", "CBC ", "SHA256", None, None),
    CipherSuite(\Hc041, "DH  ", "RSA     ", "ARIA_256", "CBC ", "SHA384", None, None),
    CipherSuite(\Hc042, "DHE ", "DSS     ", "ARIA_128", "CBC ", "SHA256", None, None),
    CipherSuite(\Hc043, "DHE ", "DSS     ", "ARIA_256", "CBC ", "SHA384", None, None),
    CipherSuite(\Hc044, "DHE ", "RSA     ", "ARIA_128", "CBC ", "SHA256", None, None),
    CipherSuite(\Hc045, "DHE ", "RSA     ", "ARIA_256", "CBC ", "SHA384", None, None),
    CipherSuite(\Hc046, "DH  ", "anon    ", "ARIA_128", "CBC ", "SHA256", None, None),
    CipherSuite(\Hc047, "DH  ", "anon    ", "ARIA_256", "CBC ", "SHA384", None, None),
    CipherSuite(\Hc048, "ECDHE", "ECDSA  ", "ARIA_128", "CBC ", "SHA256", None, None),
    CipherSuite(\Hc049, "ECDHE", "ECDSA  ", "ARIA_256", "CBC ", "SHA384", None, None),
    CipherSuite(\Hc04a, "ECDH ", "ECDSA  ", "ARIA_128", "CBC ", "SHA256", None, None),
    CipherSuite(\Hc04b, "ECDH ", "ECDSA  ", "ARIA_256", "CBC ", "SHA384", None, None),
    CipherSuite(\Hc04c, "ECDHE", "RSA    ", "ARIA_128", "CBC ", "SHA256", None, None),
    CipherSuite(\Hc04d, "ECDHE", "RSA    ", "ARIA_256", "CBC ", "SHA384", None, None),
    CipherSuite(\Hc04e, "ECDH ", "RSA    ", "ARIA_128", "CBC ", "SHA256", None, None),
    CipherSuite(\Hc04f, "ECDH ", "RSA    ", "ARIA_256", "CBC ", "SHA384", None, None),
    CipherSuite(\Hc050, "RSA ", "        ", "ARIA_128", "GCM ", "SHA256", None, None),
    CipherSuite(\Hc051, "RSA ", "        ", "ARIA_256", "GCM ", "SHA384", None, None),
    CipherSuite(\Hc052, "DHE ", "RSA     ", "ARIA_128", "GCM ", "SHA256", None, None),
    CipherSuite(\Hc053, "DHE ", "RSA     ", "ARIA_256", "GCM ", "SHA384", None, None),
    CipherSuite(\Hc054, "DH  ", "RSA     ", "ARIA_128", "GCM ", "SHA256", None, None),
    CipherSuite(\Hc055, "DH  ", "RSA     ", "ARIA_256", "GCM ", "SHA384", None, None),
    CipherSuite(\Hc056, "DHE ", "DSS     ", "ARIA_128", "GCM ", "SHA256", None, None),
    CipherSuite(\Hc057, "DHE ", "DSS     ", "ARIA_256", "GCM ", "SHA384", None, None),
    CipherSuite(\Hc058, "DH  ", "DSS     ", "ARIA_128", "GCM ", "SHA256", None, None),
    CipherSuite(\Hc059, "DH  ", "DSS     ", "ARIA_256", "GCM ", "SHA384", None, None),
    CipherSuite(\Hc05a, "DH  ", "anon    ", "ARIA_128", "GCM ", "SHA256", None, None),
    CipherSuite(\Hc05b, "DH  ", "anon    ", "ARIA_256", "GCM ", "SHA384", None, None),
    CipherSuite(\Hc05c, "ECDHE", "ECDSA  ", "ARIA_128", "GCM ", "SHA256", None, None),
    CipherSuite(\Hc05d, "ECDHE", "ECDSA  ", "ARIA_256", "GCM ", "SHA384", None, None),
    CipherSuite(\Hc05e, "ECDH ", "ECDSA  ", "ARIA_128", "GCM ", "SHA256", None, None),
    CipherSuite(\Hc05f, "ECDH ", "ECDSA  ", "ARIA_256", "GCM ", "SHA384", None, None),
    CipherSuite(\Hc060, "ECDHE", "RSA    ", "ARIA_128", "GCM ", "SHA256", None, None),
    CipherSuite(\Hc061, "ECDHE", "RSA    ", "ARIA_256", "GCM ", "SHA384", None, None),
    CipherSuite(\Hc062, "ECDH ", "RSA    ", "ARIA_128", "GCM ", "SHA256", None, None),
    CipherSuite(\Hc063, "ECDH ", "RSA    ", "ARIA_256", "GCM ", "SHA384", None, None),
    CipherSuite(\Hc064, "    ", "PSK     ", "ARIA_128", "CBC ", "SHA256", None, None),
    CipherSuite(\Hc065, "    ", "PSK     ", "ARIA_256", "CBC ", "SHA384", None, None),
    CipherSuite(\Hc066, "DHE ", "PSK     ", "ARIA_128", "CBC ", "SHA256", None, None),
    CipherSuite(\Hc067, "DHE ", "PSK     ", "ARIA_256", "CBC ", "SHA384", None, None),
    CipherSuite(\Hc068, "RSA ", "PSK     ", "ARIA_128", "CBC ", "SHA256", None, None),
    CipherSuite(\Hc069, "RSA ", "PSK     ", "ARIA_256", "CBC ", "SHA384", None, None),
    CipherSuite(\Hc06a, "    ", "PSK     ", "ARIA_128", "GCM ", "SHA256", None, None),
    CipherSuite(\Hc06b, "    ", "PSK     ", "ARIA_256", "GCM ", "SHA384", None, None),
    CipherSuite(\Hc06c, "DHE ", "PSK     ", "ARIA_128", "GCM ", "SHA256", None, None),
    CipherSuite(\Hc06d, "DHE ", "PSK     ", "ARIA_256", "GCM ", "SHA384", None, None),
    CipherSuite(\Hc06e, "RSA ", "PSK     ", "ARIA_128", "GCM ", "SHA256", None, None),
    CipherSuite(\Hc06f, "RSA ", "PSK     ", "ARIA_256", "GCM ", "SHA384", None, None),
    CipherSuite(\Hc070, "ECDHE", "PSK    ", "ARIA_128", "GCM ", "SHA256", None, None),
    CipherSuite(\Hc071, "ECDHE", "PSK    ", "ARIA_256", "GCM ", "SHA384", None, None),
    CipherSuite(\Hc072, "ECDHE", "ECDSA  ", "CAMELLIA_128", "CBC", "SHA256", None, None),
    CipherSuite(\Hc073, "ECDHE", "ECDSA  ", "CAMELLIA_256", "CBC", "SHA384", None, None),
    CipherSuite(\Hc074, "ECDH ", "ECDSA  ", "CAMELLIA_128", "CBC", "SHA256", None, None),
    CipherSuite(\Hc075, "ECDH ", "ECDSA  ", "CAMELLIA_256", "CBC", "SHA384", None, None),
    CipherSuite(\Hc076, "ECDHE", "RSA    ", "CAMELLIA_128", "CBC", "SHA256", None, None),
    CipherSuite(\Hc077, "ECDHE", "RSA    ", "CAMELLIA_256", "CBC", "SHA384", None, None),
    CipherSuite(\Hc078, "ECDH ", "RSA    ", "CAMELLIA_128", "CBC", "SHA256", None, None),
    CipherSuite(\Hc079, "ECDH ", "RSA    ", "CAMELLIA_256", "CBC", "SHA384", None, None),
    CipherSuite(\Hc07a, "RSA ", "        ", "CAMELLIA_128", "GCM", "SHA256", None, None),
    CipherSuite(\Hc07b, "RSA ", "        ", "CAMELLIA_256", "GCM", "SHA384", None, None),
    CipherSuite(\Hc07c, "DHE ", "RSA     ", "CAMELLIA_128", "GCM", "SHA256", None, None),
    CipherSuite(\Hc07d, "DHE ", "RSA     ", "CAMELLIA_256", "GCM", "SHA384", None, None),
    CipherSuite(\Hc07e, "DH  ", "RSA     ", "CAMELLIA_128", "GCM", "SHA256", None, None),
    CipherSuite(\Hc07f, "DH  ", "RSA     ", "CAMELLIA_256", "GCM", "SHA384", None, None),
    CipherSuite(\Hc080, "DHE ", "DSS     ", "CAMELLIA_128", "GCM", "SHA256", None, None),
    CipherSuite(\Hc081, "DHE ", "DSS     ", "CAMELLIA_256", "GCM", "SHA384", None, None),
    CipherSuite(\Hc082, "DH  ", "DSS     ", "CAMELLIA_128", "GCM", "SHA256", None, None),
    CipherSuite(\Hc083, "DH  ", "DSS     ", "CAMELLIA_256", "GCM", "SHA384", None, None),
    CipherSuite(\Hc084, "DH  ", "anon    ", "CAMELLIA_128", "GCM", "SHA256", None, None),
    CipherSuite(\Hc085, "DH  ", "anon    ", "CAMELLIA_256", "GCM", "SHA384", None, None),
    CipherSuite(\Hc086, "ECDHE", "ECDSA  ", "CAMELLIA_128", "GCM", "SHA256", None, None),
    CipherSuite(\Hc087, "ECDHE", "ECDSA  ", "CAMELLIA_256", "GCM", "SHA384", None, None),
    CipherSuite(\Hc088, "ECDH ", "ECDSA  ", "CAMELLIA_128", "GCM", "SHA256", None, None),
    CipherSuite(\Hc089, "ECDH ", "ECDSA  ", "CAMELLIA_256", "GCM", "SHA384", None, None),
    CipherSuite(\Hc08a, "ECDHE", "RSA    ", "CAMELLIA_128", "GCM", "SHA256", None, None),
    CipherSuite(\Hc08b, "ECDHE", "RSA    ", "CAMELLIA_256", "GCM", "SHA384", None, None),
    CipherSuite(\Hc08c, "ECDH ", "RSA    ", "CAMELLIA_128", "GCM", "SHA256", None, None),
    CipherSuite(\Hc08d, "ECDH ", "RSA    ", "CAMELLIA_256", "GCM", "SHA384", None, None),
    CipherSuite(\Hc08e, "    ", "PSK     ", "CAMELLIA_128", "GCM", "SHA256", None, None),
    CipherSuite(\Hc08f, "    ", "PSK     ", "CAMELLIA_256", "GCM", "SHA384", None, None),
    CipherSuite(\Hc090, "DHE ", "PSK     ", "CAMELLIA_128", "GCM", "SHA256", None, None),
    CipherSuite(\Hc091, "DHE ", "PSK     ", "CAMELLIA_256", "GCM", "SHA384", None, None),
    CipherSuite(\Hc092, "RSA ", "PSK     ", "CAMELLIA_128", "GCM", "SHA256", None, None),
    CipherSuite(\Hc093, "RSA ", "PSK     ", "CAMELLIA_256", "GCM", "SHA384", None, None),
    CipherSuite(\Hc094, "    ", "PSK     ", "CAMELLIA_128", "CBC", "SHA256", None, None),
    CipherSuite(\Hc095, "    ", "PSK     ", "CAMELLIA_256", "CBC", "SHA384", None, None),
    CipherSuite(\Hc096, "DHE ", "PSK     ", "CAMELLIA_128", "CBC", "SHA256", None, None),
    CipherSuite(\Hc097, "DHE ", "PSK     ", "CAMELLIA_256", "CBC", "SHA384", None, None),
    CipherSuite(\Hc098, "RSA ", "PSK     ", "CAMELLIA_128", "CBC", "SHA256", None, None),
    CipherSuite(\Hc099, "RSA ", "PSK     ", "CAMELLIA_256", "CBC", "SHA384", None, None),
    CipherSuite(\Hc09a, "ECDHE", "PSK    ", "CAMELLIA_128", "CBC", "SHA256", None, None),
    CipherSuite(\Hc09b, "ECDHE", "PSK    ", "CAMELLIA_256", "CBC", "SHA384", None, None),
    CipherSuite(\Hc09c, "RSA ", "        ", "AES_128 ", "CCM ", "", None, None),
    CipherSuite(\Hc09d, "RSA ", "        ", "AES_256 ", "CCM ", "", None, None),
    CipherSuite(\Hc09e, "DHE ", "RSA     ", "AES_128 ", "CCM ", "", None, None),
    CipherSuite(\Hc09f, "DHE ", "RSA     ", "AES_256 ", "CCM ", "", None, None),
    CipherSuite(\Hc0a0, "RSA ", "        ", "AES_128 ", "CCM_8", "", None, None),
    CipherSuite(\Hc0a1, "RSA ", "        ", "AES_256 ", "CCM_8", "", None, None),
    CipherSuite(\Hc0a2, "DHE ", "RSA     ", "AES_128 ", "CCM_8", "", None, None),
    CipherSuite(\Hc0a3, "DHE ", "RSA     ", "AES_256 ", "CCM_8", "", None, None),
    CipherSuite(\Hc0a4, "    ", "PSK     ", "AES_128 ", "CCM ", "", None, None),
    CipherSuite(\Hc0a5, "    ", "PSK     ", "AES_256 ", "CCM ", "", None, None),
    CipherSuite(\Hc0a6, "DHE ", "PSK     ", "AES_128 ", "CCM ", "", None, None),
    CipherSuite(\Hc0a7, "DHE ", "PSK     ", "AES_256 ", "CCM ", "", None, None),
    CipherSuite(\Hc0a8, "    ", "PSK     ", "AES_128 ", "CCM_8", "", None, None),
    CipherSuite(\Hc0a9, "    ", "PSK     ", "AES_256 ", "CCM_8", "", None, None),
    CipherSuite(\Hc0aa, "DHE ", "PSK     ", "AES_128 ", "CCM_8", "", None, None),
    CipherSuite(\Hc0ab, "DHE ", "PSK     ", "AES_256 ", "CCM_8", "", None, None),
    CipherSuite(\Hc0ac, "ECDHE", "ECDSA  ", "AES_128 ", "CCM ", "", None, None),
    CipherSuite(\Hc0ad, "ECDHE", "ECDSA  ", "AES_256 ", "CCM ", "", None, None),
    CipherSuite(\Hc0ae, "ECDHE", "ECDSA  ", "AES_128 ", "CCM_8", "", None, None),
    CipherSuite(\Hc0af, "ECDHE", "ECDSA  ", "AES_256 ", "CCM_8", "", None, None),
    CipherSuite(\Hcc13, "ECDHE", "RSA    ", "CHACHA20", "POLY1305", "SHA256", Some("OLD_TLS_ECDHE_RSA_WITH_CHACHA20_POLY1305_SHA256"), None),
    CipherSuite(\Hcc14, "ECDHE", "ECDSA  ", "CHACHA20", "POLY1305", "SHA256", Some("OLD_TLS_ECDHE_ECDSA_WITH_CHACHA20_POLY1305_SHA256"), None),
    CipherSuite(\Hcc15, "DHE  ", "RSA    ", "CHACHA20", "POLY1305", "SHA256", Some("OLD_TLS_DHE_RSA_WITH_CHACHA20_POLY1305_SHA256"), None),
    CipherSuite(\Hcca8, "ECDHE", "RSA    ", "CHACHA20", "POLY1305", "SHA256", None, None),
    CipherSuite(\Hcca9, "ECDHE", "ECDSA  ", "CHACHA20", "POLY1305", "SHA256", None, None),
    CipherSuite(\Hccaa, "DHE  ", "RSA    ", "CHACHA20", "POLY1305", "SHA256", None, None),
    CipherSuite(\Hccab, "     ", "PSK    ", "CHACHA20", "POLY1305", "SHA256", None, None),
    CipherSuite(\Hccac, "ECDHE", "PSK    ", "CHACHA20", "POLY1305", "SHA256", None, None),
    CipherSuite(\Hccad, "DHE  ", "PSK    ", "CHACHA20", "POLY1305", "SHA256", None, None),
    CipherSuite(\Hccae, "RSA  ", "PSK    ", "CHACHA20", "POLY1305", "SHA256", None, None),
    CipherSuite(\H010080, "RSA", "RSA    ", "RC4_128         ", "   ", "MD5", Some("SSL_CK_RC4_128_WITH_MD5"), None),
    CipherSuite(\H020080, "RSA", "RSA    ", "RC4_128_EXPORT40", "   ", "MD5", Some("SSL_CK_RC4_128_EXPORT40_WITH_MD5"), None),
    CipherSuite(\H030080, "RSA", "RSA    ", "RC2_128         ", "CBC", "MD5", Some("SSL_CK_RC2_128_CBC_WITH_MD5"), Some("RC2_CBC_128")),
    CipherSuite(\H040080, "RSA", "RSA    ", "RC2_128_EXPORT40", "CBC", "MD5", Some("SSL_CK_RC2_128_CBC_EXPORT40_WITH_MD5"), Some("RC2_CBC_128_EXPORT40")),
    CipherSuite(\H050080, "RSA", "RSA    ", "IDEA_128        ", "CBC", "MD5", Some("SSL_CK_IDEA_128_CBC_WITH_MD5"), Some("IDEA_CBC_128")),
    CipherSuite(\H060040, "RSA", "RSA    ", "DES             ", "CBC", "MD5", Some("SSL_CK_DES_64_CBC_WITH_MD5"), Some("DES_CBC_64")),
    CipherSuite(\H0700C0, "RSA", "RSA    ", "3DES            ", "CBC", "MD5", Some("SSL_CK_DES_192_EDE3_CBC_WITH_MD5"), Some("DES_EDE3_CBC_192"))
>>

-----------------------------------------------------------------------------
(* module globals built at import *)

\* dict((cipher.code, cipher) for cipher in CIPHERSUITES); a value is the
\* reference to the element
BY_CODE ==
    dict([i \in DOMAIN CIPHERSUITES |-> CIPHERSUITES[i].code])

\* suite.name for suite in CIPHERSUITES
SuiteNames ==
    [i \in DOMAIN CIPHERSUITES |-> name(CIPHERSUITES[i])]

\* dict((suite.name, suite) for suite in CIPHERSUITES), the value BY_NAME
\* assigns to BY_NAME_DICT
NameDict ==
    dict(SuiteNames)

\* CIPHERSUITES[0]: the first row of the list, which has the tokens of the
\* NULL suite too
NULL_SUITE_first == BY_CODE[CIPHERSUITES[1].code]

NULL_SUITE == BY_CODE[\H0000]

-----------------------------------------------------------------------------
(* inputs of the lookups *)

TableCodes == {CIPHERSUITES[i].code : i \in DOMAIN CIPHERSUITES}

TableNames == {SuiteNames[i] : i \in DOMAIN CIPHERSUITES}

\* codes seen on the wire that the table does not list: reserved and
\* unassigned values, TLS 1.3 suites, an SSL2 code one off a listed one
OtherCodes == {\H001c, \H0047, \H0080, \H1301, \H1302, \Hfefe, \H010081}

\* names that are not the exact name of a listed suite
OtherNames ==
    {"", "NULL", "tls_rsa_with_rc4_128_sha", "TLS_RSA_WITH_RC4_128_SHA ",
     "TLS_RSA_WITH_RC4_128", "RSA_WITH_RC4_128_SHA", "TLS_AES_128_GCM_SHA256",
     "TLS_NULL_WITH_NULL", "Tls_Fallback"}

Codes == TableCodes \cup OtherCodes

Names == TableNames \cup OtherNames

-----------------------------------------------------------------------------
(* the lookups *)

Threads == 1..NumThreads

\* a thread that is in no call
Idle == [pc |-> "idle", op |-> "import", arg |-> None, kind |-> "return", val |-> None]

Init ==
    /\ BY_NAME_DICT = None
    /\ self = None
    /\ ret = [op |-> "import", arg |-> None, kind |-> "return", val |-> None]
    /\ builds = 0
    /\ threads = [t \in Threads |-> Idle]

\* BY_CODE[code]
BY_CODE_getitem(code) ==
    /\ ret' = [op |-> "BY_CODE", arg |-> code] @@ getitem(BY_CODE, code)
    /\ UNCHANGED <<BY_NAME_DICT, self, builds, threads>>

\* a BY_NAME without the test: the index is built on every call
BY_NAME_rebuild(n) ==
    /\ BY_NAME_DICT' = Some(NameDict)
    /\ builds' = builds + 1
    /\ ret' = [op |-> "BY_NAME", arg |-> n] @@ getitem(NameDict, n)
    /\ UNCHANGED <<self, threads>>

\* a BY_NAME that drops the index again when the name is not found
BY_NAME_forget(n) ==
    LET d == IF BY_NAME_DICT = None THEN NameDict ELSE BY_NAME_DICT[1]
    IN  /\ BY_NAME_DICT' = IF n \in DOMAIN d THEN Some(d) ELSE None
        /\ builds' = IF BY_NAME_DICT = None THEN builds + 1 ELSE builds
        /\ ret' = [op |-> "BY_NAME", arg |-> n] @@ getitem(d, n)
        /\ UNCHANGED <<self, threads>>

\* BY_NAME(name)
BY_NAME(n) ==
    LET d == IF BY_NAME_DICT = None THEN NameDict ELSE BY_NAME_DICT[1]
    IN  /\ BY_NAME_DICT' = Some(d)
        /\ builds' = IF BY_NAME_DICT = None THEN builds + 1 ELSE builds
        /\ ret' = [op |-> "BY_NAME", arg |-> n] @@ getitem(d, n)
        /\ UNCHANGED <<self, threads>>

Next ==
    \/ \E code \in Codes : BY_CODE_getitem(code)
    \/ \E n \in Names : BY_NAME(n)

Spec == Init /\ [][Next]_vars

-----------------------------------------------------------------------------
(* reading the properties of one CipherSuite object *)

\* constructor arguments tried beside the rows of the table
KxArgs == {"", "RSA", "DHE", "ECDH", "anon"}
AuthArgs == {"", "PSK", "anon_EXPORT", "DHE"}
CipherArgs == {"AES_128", "RC4_40", "ARIA_128"}
ModeArgs == {"", "CBC", "CCM_8"}
MacArgs == {"", "SHA", "NULL"}
NameArgs == {None, Some("PRIVATE_SUITE")}
EncodingArgs == {None, Some("RC2_CBC_40"), Some("")}

RECURSIVE Spaces(_)
Spaces(n) == IF n = 0 THEN "" ELSE " " \o Spaces(n - 1)

\* the objects of the table, reached through BY_CODE, and objects built
\* from the arguments above, each token padded as the rows of the table are
Suites ==
    {CIPHERSUITES[BY_CODE[code]] : code \in TableCodes} \cup
    {CipherSuite(\H1301, k \o Spaces(p), a \o Spaces(p), c \o Spaces(p),
                 m \o Spaces(p), h \o Spaces(p), n, e) :
        k \in KxArgs, a \in AuthArgs, c \in CipherArgs, m \in ModeArgs,
        h \in MacArgs, n \in NameArgs, e \in EncodingArgs, p \in 0..MaxPad}

InitSuite ==
    /\ BY_NAME_DICT = None
    /\ self \in Suites
    /\ ret = [op |-> "import", arg |-> None, kind |-> "return", val |-> None]
    /\ builds = 0
    /\ threads = [t \in Threads |-> Idle]

\* a property that stores the fallback it has computed back into the object
Read_cache(property, value) ==
    /\ ret' = [op |-> property, arg |-> None, kind |-> "return", val |-> value]
    /\ self' = [self EXCEPT !._kx = kx(self), !._auth = auth(self)]
    /\ UNCHANGED <<BY_NAME_DICT, builds, threads>>

Read(property, value) ==
    /\ ret' = [op |-> property, arg |-> None, kind |-> "return", val |-> value]
    /\ UNCHANGED <<BY_NAME_DICT, self, builds, threads>>

Read_kx == Read("kx", kx(self))
Read_auth == Read("auth", auth(self))
Read_kx_auth == Read("kx_auth", kx_auth(self))
Read_encoding == Read("encoding", encoding(self))
Read_name == Read("name", name(self))
Read_mac_size == Read("mac_size", mac_size(self))
Read_block_size == Read("block_size", block_size(self))
Read_pfs == Read("pfs", pfs(self))
Read_aead == Read("aead", aead(self))
Read_anonymous == Read("anonymous", anonymous(self))

NextSuite ==
    \/ Read_kx
    \/ Read_auth
    \/ Read_kx_auth
    \/ Read_encoding
    \/ Read_name
    \/ Read_mac_size
    \/ Read_block_size
    \/ Read_pfs
    \/ Read_aead
    \/ Read_anonymous

SpecSuite == InitSuite /\ [][NextSuite]_vars

-----------------------------------------------------------------------------
(* the lookups called from several threads; a thread may be preempted
   between any two of the steps of BY_NAME *)

SampleCodes == {\H0005, \H1301}

SampleNames ==
    {"TLS_RSA_WITH_RC4_128_SHA", "TLS_RSA_WITH_AES_256_CCM",
     "tls_rsa_with_rc4_128_sha"}

At(t, pc) ==
    [threads EXCEPT ![t] = [@ EXCEPT !.pc = pc]]

\* BY_CODE[code]: one subscript of a dict that is never written
T_BY_CODE(t, code) ==
    /\ threads[t].pc = "idle"
    /\ threads' = [threads EXCEPT ![t] =
          [pc |-> "idle", op |-> "BY_CODE", arg |-> code] @@ getitem(BY_CODE, code)]
    /\ UNCHANGED <<BY_NAME_DICT, self, ret, builds>>

\* BY_NAME(name) is entered
T_call(t, n) ==
    /\ threads[t].pc = "idle"
    /\ threads' = [threads EXCEPT ![t] =
          [pc |-> "test", op |-> "BY_NAME", arg |-> n, kind |-> "pending", val |-> None]]
    /\ UNCHANGED <<BY_NAME_DICT, self, ret, builds>>

\* if BY_NAME_DICT is None:
T_test(t) ==
    /\ threads[t].pc = "test"
    /\ threads' = At(t, IF BY_NAME_DICT = None THEN "build" ELSE "return")
    /\ UNCHANGED <<BY_NAME_DICT, self, ret, builds>>

\* an index whose construction has only reached the first row of the list
PartialDict ==
    dict(SubSeq(SuiteNames, 1, 1))

\* BY_NAME_DICT = {} followed by one insertion per suite: the global is
\* bound before the index is complete
T_build_inplace(t) ==
    /\ threads[t].pc = "build"
    /\ builds' = builds + 1
    /\ BY_NAME_DICT' = Some(PartialDict)
    /\ threads' = At(t, "assign")
    /\ UNCHANGED <<self, ret>>

\* dict((suite.name, suite) for suite in CIPHERSUITES): the new dict is
\* complete, and still a temporary of this thread
T_build(t) ==
    /\ threads[t].pc = "build"
    /\ builds' = builds + 1
    /\ threads' = At(t, "assign")
    /\ UNCHANGED <<BY_NAME_DICT, self, ret>>

\* BY_NAME_DICT = <the dict just built>
T_assign(t) ==
    /\ threads[t].pc = "assign"
    /\ BY_NAME_DICT' = Some(NameDict)
    /\ threads' = At(t, "return")
    /\ UNCHANGED <<self, ret, builds>>

\* return BY_NAME_DICT[name]
T_return(t) ==
    /\ threads[t].pc = "return"
    /\ threads' = [threads EXCEPT ![t] =
          [pc |-> "idle", op |-> "BY_NAME", arg |-> threads[t].arg]
             @@ getitem(BY_NAME_DICT[1], threads[t].arg)]
    /\ UNCHANGED <<BY_NAME_DICT, self, ret, builds>>

NextThreads ==
    \E t \in Threads :
        \/ \E code \in SampleCodes : T_BY_CODE(t, code)
        \/ \E n \in SampleNames : T_call(t, n)
        \/ T_test(t)
        \/ T_build(t)
        \/ T_assign(t)
        \/ T_return(t)

SpecThreads == Init /\ [][NextThreads]_vars

-----------------------------------------------------------------------------
(* lookups and property reads in any order, watched from one entry of the
   table *)

InitUse ==
    /\ BY_NAME_DICT = None
    /\ self \in {CIPHERSUITES[i] : i \in DOMAIN CIPHERSUITES}
    /\ ret = [op |-> "import", arg |-> None, kind |-> "return", val |-> None]
    /\ builds = 0
    /\ threads = [t \in Threads |-> Idle]

NextUse ==
    \/ \E code \in SampleCodes : BY_CODE_getitem(code)
    \/ \E n \in SampleNames : BY_NAME(n)
    \/ NextSuite

SpecUse == InitUse /\ [][NextUse]_vars

-----------------------------------------------------------------------------
(* the lookups return the entry that was asked for *)

Entries == DOMAIN CIPHERSUITES

CodesDistinct ==
    \A i, j \in Entries : CIPHERSUITES[i].code = CIPHERSUITES[j].code => i = j

CodeIndexExact ==
    \A i \in Entries :
        getitem(BY_CODE, CIPHERSUITES[i].code) = [kind |-> "return", val |-> i]

\* C1: no two entries of CIPHERSUITES share a code, and looking the code of
\* an entry up in BY_CODE returns that very entry, never another entry that
\* replaced it in the dict.
C1_CodeLookupExact ==
    /\ CodesDistinct
    /\ CodeIndexExact
    /\ (ret.op = "BY_CODE" /\ ret.arg \in TableCodes) =>
          /\ ret.kind = "return"
          /\ \A i \in Entries : CIPHERSUITES[i].code = ret.arg => ret.val = i

\* a three-byte SSL2 code was looked up and its own entry came back
C1_Witness ==
    /\ ret.op = "BY_CODE"
    /\ ret.arg = \H010080
    /\ ret.kind = "return"
    /\ CIPHERSUITES[ret.val]._name = Some("SSL_CK_RC4_128_WITH_MD5")

NamesDistinct ==
    \A i, j \in Entries : SuiteNames[i] = SuiteNames[j] => i = j

NameIndexExact ==
    \A i \in Entries :
        getitem(NameDict, SuiteNames[i]) = [kind |-> "return", val |-> i]

\* C2: the names of the entries, derived or explicit, are pairwise distinct,
\* and BY_NAME of the name of an entry returns that very entry: no entry is
\* shadowed in the name index.
C2_NameLookupExact ==
    /\ NamesDistinct
    /\ (BY_NAME_DICT # None => BY_NAME_DICT[1] = NameDict /\ NameIndexExact)
    /\ (ret.op = "BY_NAME" /\ ret.arg \in TableNames) =>
          /\ ret.kind = "return"
          /\ \A i \in Entries : SuiteNames[i] = ret.arg => ret.val = i

\* the RFC 7905 suite was looked up by its derived name and came back, not
\* the OLD_ suite with the same tokens
C2_Witness ==
    /\ ret.op = "BY_NAME"
    /\ ret.arg = "TLS_DHE_RSA_WITH_CHACHA20_POLY1305_SHA256"
    /\ ret.kind = "return"
    /\ CIPHERSUITES[ret.val].code = \Hccaa

\* C3: a lookup by a code the table does not list, or by a string that is
\* not exactly (case and spacing included) the name of an entry, ends in
\* KeyError and returns no entry; an entry that a lookup returns has the
\* code or the name that was asked for.
C3_NotFound ==
    /\ ret.op = "BY_CODE" =>
          IF \E i \in Entries : CIPHERSUITES[i].code = ret.arg
          THEN ret.kind = "return" /\ ret.val \in Entries
               /\ CIPHERSUITES[ret.val].code = ret.arg
          ELSE ret.kind = "KeyError"
    /\ ret.op = "BY_NAME" =>
          IF \E i \in Entries : SuiteNames[i] = ret.arg
          THEN ret.kind = "return" /\ ret.val \in Entries
               /\ SuiteNames[ret.val] = ret.arg
          ELSE ret.kind = "KeyError"

\* the lower-case spelling of a listed name was looked up and was not found
C3_Witness ==
    /\ ret.op = "BY_NAME"
    /\ ret.arg = "tls_rsa_with_rc4_128_sha"
    /\ ret.kind = "KeyError"

-----------------------------------------------------------------------------
(* the properties of a suite *)

TableSuites == {CIPHERSUITES[i] : i \in Entries}

\* the tokens of the naming rule, from the stored fields
KeyExchangeToken(s) ==
    CASE s._auth = "" -> s._kx
      [] s._kx = "" -> s._auth
      [] OTHER -> s._kx \o "_" \o s._auth

EncodingToken(s) ==
    CASE s._encoding # None -> s._encoding[1]
      [] s.mode = "" -> s.cipher
      [] OTHER -> s.cipher \o "_" \o s.mode

MacSuffix(s) ==
    IF s.mac # "" THEN "_" \o s.mac ELSE ""

SameTokens(s, t) ==
    /\ s._kx = t._kx /\ s._auth = t._auth /\ s.cipher = t.cipher
    /\ s.mode = t.mode /\ s.mac = t.mac

OldAndNewChaCha ==
    SameTokens(CIPHERSUITES[BY_CODE[\Hcc15]], CIPHERSUITES[BY_CODE[\Hccaa]])

\* C4: name is the explicit name when one was given, and otherwise
\* "TLS_" + K + "_WITH_" + E, followed by "_" + mac only when mac is not
\* empty; K is kx when auth is empty, auth when kx is empty, else
\* kx + "_" + auth; E is the explicit encoding when given, else cipher when
\* mode is empty, else cipher + "_" + mode.  0xcc15 and 0xccaa store the
\* same tokens and are named OLD_TLS_DHE_RSA_WITH_CHACHA20_POLY1305_SHA256
\* and TLS_DHE_RSA_WITH_CHACHA20_POLY1305_SHA256.
C4_Name ==
    /\ ret.op = "kx_auth" => ret.val = KeyExchangeToken(self)
    /\ ret.op = "encoding" => ret.val = EncodingToken(self)
    /\ ret.op = "name" =>
          /\ ret.val =
                IF self._name # None
                THEN self._name[1]
                ELSE "TLS_" \o KeyExchangeToken(self) \o "_WITH_"
                        \o EncodingToken(self) \o MacSuffix(self)
          /\ OldAndNewChaCha
          /\ self = CIPHERSUITES[BY_CODE[\Hcc15]] =>
                ret.val = "OLD_TLS_DHE_RSA_WITH_CHACHA20_POLY1305_SHA256"
          /\ self = CIPHERSUITES[BY_CODE[\Hccaa]] =>
                ret.val = "TLS_DHE_RSA_WITH_CHACHA20_POLY1305_SHA256"

\* the name of a CCM suite was read: derived, with no MAC suffix
C4_Witness ==
    /\ ret.op = "name"
    /\ self = CIPHERSUITES[BY_CODE[\Hc0a2]]
    /\ self._name = None /\ self.mac = ""
    /\ ret.val = "TLS_DHE_RSA_WITH_AES_128_CCM_8"

\* C5: kx returns the stored key-exchange token when it is not empty and
\* otherwise the stored auth token; auth returns the stored auth token when
\* it is not empty and otherwise the stored key-exchange token; when exactly
\* one stored token is empty both return the same, non-empty, token.
C5_KxAuthFallback ==
    /\ ret.op = "kx" =>
          ret.val = IF self._kx # "" THEN self._kx ELSE self._auth
    /\ ret.op = "auth" =>
          ret.val = IF self._auth # "" THEN self._auth ELSE self._kx
    /\ (ret.op \in {"kx", "auth"} /\ (self._kx = "") # (self._auth = "")) =>
          /\ ret.val # ""
          /\ ret.val \in {self._kx, self._auth}
          /\ kx(self) = auth(self)

\* kx was read on a PSK-only suite, whose key-exchange slot is blank
C5_Witness ==
    /\ ret.op = "kx"
    /\ self = CIPHERSUITES[BY_CODE[\H002c]]
    /\ self._kx = "" /\ self._auth = "PSK"
    /\ ret.val = "PSK"

\* C6 as stated: for every entry of the table mac_size is one of 0, 16, 20,
\* 32, 48, and it is 0 exactly when the mac token is the empty string.
C6_ZeroIffMacEmpty ==
    (ret.op = "mac_size" /\ self \in TableSuites) =>
        /\ ret.val \in {0, 16, 20, 32, 48}
        /\ ret.val = 0 <=> self.mac = ""

\* C6: for every entry of the table mac_size is one of 0, 16, 20, 32, 48;
\* an empty mac token gives 0, and mac_size is 0 exactly when the mac token
\* is empty or is "NULL" (the token of 0x0000 and 0x00ff, which MAC_SIZES
\* does not list).
C6_MacSize ==
    (ret.op = "mac_size" /\ self \in TableSuites) =>
        /\ ret.val \in {0, 16, 20, 32, 48}
        /\ self.mac = "" => ret.val = 0
        /\ ret.val = 0 <=> self.mac \in {"", "NULL"}

\* mac_size was read on the NULL suite: 0, with a mac token that is not empty
C6_Witness ==
    /\ ret.op = "mac_size"
    /\ self = CIPHERSUITES[BY_CODE[\H0000]]
    /\ self.mac = "NULL"
    /\ ret.val = 0

NamedSizes ==
    ("AES_128" :> 16) @@ ("3DES_EDE" :> 8) @@ ("DES" :> 8) @@
    ("CHACHA20" :> 64) @@ ("SEED" :> 16)

\* C7: block_size keeps three outcomes apart: a cipher token listed with a
\* size returns that size (AES_128 16, 3DES_EDE 8, DES 8, CHACHA20 64,
\* SEED 16); the RC4 tokens return None, which is no number, 0 and 1
\* included; a token that BLOCK_SIZES does not list returns 1.
C7_BlockSize ==
    ret.op = "block_size" =>
        /\ self.cipher \in DOMAIN NamedSizes =>
              ret.val = Some(NamedSizes[self.cipher])
        /\ (self.cipher \in DOMAIN BLOCK_SIZES /\ BLOCK_SIZES[self.cipher] # None) =>
              ret.val = BLOCK_SIZES[self.cipher]
        /\ self.cipher \in {"RC4_40", "RC4_128", "RC4_128_EXPORT40"} =>
              /\ ret.val = None
              /\ \A n \in 0..64 : ret.val # Some(n)
        /\ self.cipher \notin DOMAIN BLOCK_SIZES => ret.val = Some(1)
        /\ self.cipher \in {"", "NULL", "3DES", "ARIA_128", "ARIA_256"} =>
              ret.val = Some(1)

\* block_size was read on the SSL2 export RC4 suite: None
C7_Witness ==
    /\ ret.op = "block_size"
    /\ self = CIPHERSUITES[BY_CODE[\H020080]]
    /\ self.cipher = "RC4_128_EXPORT40"
    /\ ret.val = None

\* C8: pfs is true exactly when the effective key exchange (the stored kx,
\* or the stored auth when kx is empty) is "DHE" or "ECDHE": false for
\* plain DH, ECDH, RSA and PSK-only suites, true for DHE_PSK and ECDHE_PSK.
C8_Pfs ==
    ret.op = "pfs" =>
        /\ ret.val <=>
              (IF self._kx # "" THEN self._kx ELSE self._auth) \in {"DHE", "ECDHE"}
        /\ self._kx \in {"DH", "ECDH", "RSA"} => ~ret.val
        /\ (self._kx = "" /\ self._auth = "PSK") => ~ret.val
        /\ (self._kx \in {"DHE", "ECDHE"} /\ self._auth = "PSK") => ret.val

\* pfs was read on a plain ECDH suite: false
C8_Witness ==
    /\ ret.op = "pfs"
    /\ self = CIPHERSUITES[BY_CODE[\Hc004]]
    /\ self._kx = "ECDH"
    /\ ret.val = FALSE

\* C9: aead is true exactly when the mode token is "CCM", "CCM_8" or "GCM",
\* and false for every other mode, "CBC", "POLY1305" and the empty mode
\* included.
C9_Aead ==
    ret.op = "aead" =>
        /\ ret.val <=> self.mode \in {"CCM", "CCM_8", "GCM"}
        /\ self.mode \in {"CBC", "POLY1305", ""} => ~ret.val

\* aead was read on a ChaCha20-Poly1305 suite of the table: false
C9_Witness ==
    /\ ret.op = "aead"
    /\ self = CIPHERSUITES[BY_CODE[\Hcca8]]
    /\ self.mode = "POLY1305"
    /\ ret.val = FALSE

\* C10: anonymous is true exactly when the effective auth (the stored auth,
\* or the stored kx when auth is empty) begins with "anon": true for "anon"
\* and for "anon_EXPORT", false for every entry of the table whose auth is
\* empty.
C10_Anonymous ==
    ret.op = "anonymous" =>
        /\ ret.val <=>
              LET a == IF self._auth # "" THEN self._auth ELSE self._kx
              IN  Len(a) >= 4 /\ SubSeq(a, 1, 4) = "anon"
        /\ self._auth \in {"anon", "anon_EXPORT"} => ret.val
        /\ (self \in TableSuites /\ self._auth = "") => ~ret.val

\* anonymous was read on an export suite of the table: true
C10_Witness ==
    /\ ret.op = "anonymous"
    /\ self = CIPHERSUITES[BY_CODE[\H0019]]
    /\ self._auth = "anon_EXPORT"
    /\ ret.val = TRUE

-----------------------------------------------------------------------------
(* the blank slots of the table *)

\* the four rows that name no algorithm: NULL suite, renegotiation marker,
\* fallback marker, unknown cipher
Sentinels == {\H0000, \H00ff, \H5600, \Hffff}

\* C11: for every entry of the table other than the four sentinels, kx and
\* auth do not both return the empty string: at most one of the two stored
\* tokens is empty.
C11_NotBothEmpty ==
    (ret.op \in {"kx", "auth"} /\ self \in TableSuites /\ self.code \notin Sentinels) =>
        /\ ~(self._kx = "" /\ self._auth = "")
        /\ ret.op = "kx" => ~(ret.val = "" /\ auth(self) = "")
        /\ ret.op = "auth" => ~(ret.val = "" /\ kx(self) = "")

\* auth was read on a Kerberos suite, whose auth slot is blank
C11_Witness ==
    /\ ret.op = "auth"
    /\ self = CIPHERSUITES[BY_CODE[\H001e]]
    /\ self._auth = "" /\ self._kx = "KRB5"
    /\ ret.val = "KRB5"

-----------------------------------------------------------------------------
(* the lazily built name index *)

IndexComplete(d) ==
    /\ DOMAIN d = TableNames
    /\ \A k \in TableNames : d[k] \in Entries /\ SuiteNames[d[k]] = k

\* C12: in a sequential run the name index is unbuilt until the first
\* BY_NAME call; a by-code lookup never builds it; the first BY_NAME call
\* builds it, with one mapping per distinct name of the table; every later
\* BY_NAME call finds it built and neither rebuilds nor changes it.
C12_LazyIndex ==
    /\ [](/\ builds <= 1
          /\ BY_NAME_DICT = None <=> builds = 0
          /\ BY_NAME_DICT # None => IndexComplete(BY_NAME_DICT[1])
          /\ ret.op = "BY_NAME" => BY_NAME_DICT # None)
    /\ [][/\ ret'.op = "BY_CODE" =>
                BY_NAME_DICT' = BY_NAME_DICT /\ builds' = builds
          /\ BY_NAME_DICT # None =>
                BY_NAME_DICT' = BY_NAME_DICT /\ builds' = builds
          /\ (BY_NAME_DICT = None /\ BY_NAME_DICT' # None) =>
                ret'.op = "BY_NAME" /\ builds' = 1]_vars

\* the index was built by a BY_NAME call, and a by-code lookup made after it
\* has left it in place
C12_Witness ==
    /\ BY_NAME_DICT # None
    /\ builds = 1
    /\ ret.op = "BY_CODE"
    /\ ret.kind = "return"

\* C13: the name index is constructed once per process: when several
\* threads make their first BY_NAME calls at the same time, the build step
\* is executed by at most one of them.
C13_BuiltByOneThread ==
    builds <= 1

-----------------------------------------------------------------------------
(* nothing but the name index is ever written *)

\* C14: after import, no by-code lookup, by-name lookup or property read
\* changes a stored field of an entry, and a call repeated on the same
\* entry with the same argument has the same outcome.  (The list and the
\* BY_CODE mapping are bound once, at import; no statement assigns them.)
C14_ReadOnly ==
    [][/\ self' = self
       /\ (ret'.op = ret.op /\ ret'.arg = ret.arg) => ret' = ret]_vars

\* the name index has been built and kx_auth was then read on a PSK-only
\* entry, whose stored tokens are as they were at import
C14_Witness ==
    /\ BY_NAME_DICT # None
    /\ ret.op = "kx_auth"
    /\ self = CIPHERSUITES[BY_CODE[\H008a]]
    /\ self._kx = "" /\ self._auth = "PSK"
    /\ ret.val = "PSK"

\* C15: NULL_SUITE is the very entry that the by-code lookup of 0x0000
\* returns; its kx, its auth, its cipher and its mac are all "NULL", its
\* mode is empty, its mac_size is 0 and its name is TLS_NULL_WITH_NULL_NULL.
C15_NullSuite ==
    /\ getitem(BY_CODE, \H0000) = [kind |-> "return", val |-> NULL_SUITE]
    /\ CIPHERSUITES[NULL_SUITE].code = \H0000
    /\ self = CIPHERSUITES[NULL_SUITE] =>
          /\ self.cipher = "NULL" /\ self.mac = "NULL" /\ self.mode = ""
          /\ ret.op = "kx" => ret.val = "NULL"
          /\ ret.op = "auth" => ret.val = "NULL"
          /\ ret.op = "mac_size" => ret.val = 0
          /\ ret.op = "name" => ret.val = "TLS_NULL_WITH_NULL_NULL"

\* the name of NULL_SUITE was read
C15_Witness ==
    /\ ret.op = "name"
    /\ self = CIPHERSUITES[NULL_SUITE]
    /\ self.code = \H0000
    /\ ret.val = "TLS_NULL_WITH_NULL_NULL"

-----------------------------------------------------------------------------
(* lookups from several threads *)

Done(t) == threads[t].pc = "idle" /\ threads[t].op # "import"

\* C16: with no lock, in every interleaving of BY_CODE and BY_NAME calls of
\* several threads, first BY_NAME calls that overlap included, every call
\* ends as it would in a sequential run - the entry with the code or the
\* name asked for, or KeyError - and the name index that a call reads is
\* never a partly built one.
C16_ThreadSafe ==
    /\ BY_NAME_DICT # None => IndexComplete(BY_NAME_DICT[1])
    /\ \A t \in Threads :
          /\ (Done(t) /\ threads[t].op = "BY_CODE") =>
                IF \E i \in Entries : CIPHERSUITES[i].code = threads[t].arg
                THEN /\ threads[t].kind = "return"
                     /\ CIPHERSUITES[threads[t].val].code = threads[t].arg
                ELSE threads[t].kind = "KeyError"
          /\ (Done(t) /\ threads[t].op = "BY_NAME") =>
                IF \E i \in Entries : SuiteNames[i] = threads[t].arg
                THEN /\ threads[t].kind = "return"
                     /\ SuiteNames[threads[t].val] = threads[t].arg
                ELSE threads[t].kind = "KeyError"

\* two first BY_NAME calls overlapped, each built an index, and both have
\* returned the entry asked for
C16_Witness ==
    /\ builds = 2
    /\ \A t \in {1, 2} :
          /\ Done(t)
          /\ threads[t].op = "BY_NAME"
          /\ threads[t].kind = "return"
          /\ SuiteNames[threads[t].val] = threads[t].arg

-----------------------------------------------------------------------------
(* what the rows of the table hold *)

\* C17 as stated: every entry of the table whose mac is the empty string
\* has mode CCM or CCM_8.
C17_EmptyMacOnlyCCM ==
    (ret.op = "name" /\ self \in TableSuites /\ self.mac = "") =>
        self.mode \in {"CCM", "CCM_8"}

\* C17: every entry of the table whose mac is the empty string either has
\* mode CCM or CCM_8 and a derived name, or is one of the two markers 0x5600
\* and 0xffff, whose tokens are all empty and whose name is explicit; so the
\* name without a MAC suffix is derived for CCM and CCM_8 entries only.
C17_EmptyMac ==
    (ret.op = "name" /\ self \in TableSuites /\ self.mac = "") =>
        \/ self.mode \in {"CCM", "CCM_8"} /\ self._name = None
        \/ /\ self.code \in {\H5600, \Hffff}
           /\ self._name # None
           /\ self._kx = "" /\ self._auth = "" /\ self.cipher = "" /\ self.mode = ""

\* the name of the fallback marker was read: empty mac, empty mode
C17_Witness ==
    /\ ret.op = "name"
    /\ self = CIPHERSUITES[BY_CODE[\H5600]]
    /\ self.mac = "" /\ self.mode = ""
    /\ ret.val = "TLS_FALLBACK"

\* C18 as stated: every entry of the table whose stored auth is empty stores
\* "RSA" in the key-exchange slot, so its auth returns "RSA".
C18_EmptyAuthIsRSA ==
    (ret.op = "auth" /\ self \in TableSuites /\ self._auth = "") =>
        self._kx = "RSA" /\ ret.val = "RSA"

\* C18: every entry of the table whose stored auth is empty stores its
\* algorithm in the key-exchange slot only, and its auth returns that
\* token: "RSA" for the plain RSA suites, and also RSA_EXPORT, KRB5,
\* KRB5_EXPORT, SRP_SHA, NULL (0x0000, 0x00ff), or nothing at all for the
\* markers 0x5600 and 0xffff.
C18_EmptyAuth ==
    (ret.op = "auth" /\ self \in TableSuites /\ self._auth = "") =>
        /\ ret.val = self._kx
        /\ self._kx \in {"RSA", "RSA_EXPORT", "KRB5", "KRB5_EXPORT", "SRP_SHA", "NULL", ""}
        /\ self._kx = "" <=> self.code \in {\H5600, \Hffff}
        /\ self._kx = "NULL" <=> self.code \in {\H0000, \H00ff}

\* auth was read on an SRP suite whose auth slot is blank
C18_Witness ==
    /\ ret.op = "auth"
    /\ self = CIPHERSUITES[BY_CODE[\Hc01a]]
    /\ self._auth = "" /\ self._kx = "SRP_SHA"
    /\ ret.val = "SRP_SHA"

\* C19: for every entry of the table whose cipher is ARIA_128, ARIA_256,
\* CAMELLIA_128 or CAMELLIA_256, block_size returns the listed 16 and not
\* the default 1.
C19_AriaCamelliaListed ==
    (/\ ret.op = "block_size"
     /\ self \in TableSuites
     /\ self.cipher \in {"ARIA_128", "ARIA_256", "CAMELLIA_128", "CAMELLIA_256"}) =>
        ret.val = Some(16)

-----------------------------------------------------------------------------
(* a name that is not found *)

\* C20: a BY_NAME call with an unknown name ends in KeyError and yet, when
\* it is the first name query, leaves the name index built, complete and
\* cached; it changes nothing else; every later BY_NAME call with the name
\* of an entry returns that entry, and the index is not built again.
C20_UnknownName ==
    /\ [][(ret'.op = "BY_NAME" /\ ret'.kind = "KeyError") =>
             /\ BY_NAME_DICT' # None
             /\ IndexComplete(BY_NAME_DICT'[1])
             /\ BY_NAME_DICT # None => BY_NAME_DICT' = BY_NAME_DICT
             /\ builds' = 1
             /\ self' = self /\ threads' = threads]_vars
    /\ [](/\ builds <= 1
          /\ (ret.op = "BY_NAME" /\ \E i \in Entries : SuiteNames[i] = ret.arg) =>
                ret.kind = "return" /\ SuiteNames[ret.val] = ret.arg)

\* the only name query so far asked for a name of no entry: KeyError, and
\* the index is built
C20_Witness ==
    /\ ret.op = "BY_NAME"
    /\ ret.arg = "TLS_AES_128_GCM_SHA256"
    /\ ret.kind = "KeyError"
    /\ builds = 1
    /\ BY_NAME_DICT # None

====
